---------------------------- MODULE Spec2Model ----------------------------
(***************************************************************************)
(* Model of website-generator/main.go: the static-site generator of the    *)
(* workshop repository.                                                    *)
(*                                                                         *)
(*   - fixRelativeLinks and its two regular expressions, computed on       *)
(*     strings the way regexp.ReplaceAllStringFunc / ReplaceAllString      *)
(*     compute them (leftmost match, greedy repetition, non-overlapping    *)
(*     matches scanned left to right);                                     *)
(*   - main, generateExercisePage, generateIndexPage and copyCSSFile as a  *)
(*     state machine over the file system.                                 *)
(***************************************************************************)
EXTENDS Naturals, Sequences, FiniteSets, TLC

VARIABLES
    \* main.go, the run
    exerciseMetadata,   \* the configured descriptors, in order
    srcFiles,           \* exercises directory: file name -> markdown text
    dirs,               \* the directories that exist, among the output directory
                        \* and the directories above it
    outFiles,           \* output directory: file name -> bytes
    pc,                 \* where main stands
    index,              \* the loop variable i of main (zero-based)
    exercise,           \* the Exercise built by the generateExercisePage call in progress
    exercises,          \* the slice main appends to
    stdout,             \* lines printed to standard output
    stderr,             \* lines printed to standard error
    \* history of the run, for stating the claims
    outFiles0,          \* outFiles as the run found it
    log,                \* the file-system and print calls made, in order
    earlier,            \* the output directory as each earlier run of main left it
    \* fixRelativeLinks alone
    html,               \* SpecLinks: the fragment handed to fixRelativeLinks
    once,               \* SpecLinks: fixRelativeLinks(html)
    twice,              \* SpecLinks: fixRelativeLinks(fixRelativeLinks(html))
    lpc,                \* SpecLinks: "input" -> "once" -> "twice" ("off" under Spec)
    \* htmlFilename alone
    filename,           \* SpecNames: a source file name
    htmlName,           \* SpecNames: the output file name derived from it
    npc,                \* SpecNames: "input" -> "named" ("off" otherwise)
    \* runtime.main of exercise 7
    allgs,              \* SpecPatient: the status of each goroutine other than main
    mpc,                \* SpecPatient: where runtime.main stands ("off" otherwise)
    \* callStmt of exercise 3
    toks,               \* SpecParser: the tokens the parser reads
    tokpos,             \* SpecParser: the position of p.tok in toks
    stmts,              \* SpecParser: the CallStmt nodes returned
    ppc                 \* SpecParser: where the parser stands ("off" otherwise)

runVars == <<exerciseMetadata, srcFiles, dirs, outFiles, pc, index,
             exercise, exercises, stdout, stderr, outFiles0, log, earlier>>

linkVars == <<html, once, twice, lpc>>

nameVars == <<filename, htmlName, npc>>

patientVars == <<allgs, mpc>>

parserVars == <<toks, tokpos, stmts, ppc>>

\* What a run of main leaves alone
besideRun == <<linkVars, nameVars, patientVars, parserVars>>

vars == <<runVars, besideRun>>

---------------------------------------------------------------------------
(* Strings.  TLC evaluates Len, \o and SubSeq on strings.                  *)

Q == "\""

Max(S) == CHOOSE n \in S : \A m \in S : m <= n

Min(S) == CHOOSE n \in S : \A m \in S : n <= m

\* s[p .. p+Len(lit)-1] = lit
HasPrefixAt(s, p, lit) ==
    /\ p >= 1
    /\ p + Len(lit) - 1 <= Len(s)
    /\ SubSeq(s, p, p + Len(lit) - 1) = lit

CharAt(s, p) == SubSeq(s, p, p)

\* strings.Contains
Contains(s, lit) == \E p \in 1..Len(s) : HasPrefixAt(s, p, lit)

\* strings.HasSuffix
HasSuffix(s, suffix) ==
    /\ Len(s) >= Len(suffix)
    /\ SubSeq(s, Len(s) - Len(suffix) + 1, Len(s)) = suffix

\* strings.TrimSuffix
TrimSuffix(s, suffix) ==
    IF HasSuffix(s, suffix) THEN SubSeq(s, 1, Len(s) - Len(suffix)) ELSE s

Digits == {"0", "1", "2", "3", "4", "5", "6", "7", "8", "9"}

\* The lengths n >= 1 such that s[p .. p+n-1] holds no quote: what [^"]+
\* can consume from position p.
NonQuoteRuns(s, p) ==
    {n \in 1..(Len(s) + 1 - p) : \A k \in p..(p + n - 1) : CharAt(s, k) # Q}

\* [^"]+ followed by the literal `tail`, from position p: the position after
\* the match, 0 if there is none.  The repetition is greedy: the longest run
\* after which `tail` follows is taken.
RunThenTail(s, p, tail) ==
    LET C == {n \in NonQuoteRuns(s, p) : HasPrefixAt(s, p + n, tail)}
    IN  IF C = {} THEN 0 ELSE p + Max(C) + Len(tail)

---------------------------------------------------------------------------
(* fixRelativeLinks, main.go:204-225                                       *)

\* re  = href="\.\./(README\.md|exercises/([^"]+)\.md)"      (main.go:206)
\* The position after a match that starts at p, 0 if none starts there.  The
\* alternation is tried left to right.
Re1MatchAt(s, p) ==
    LET pre == "href=\"../"
        a   == p + Len(pre)
    IN  IF ~HasPrefixAt(s, p, pre) THEN 0
        ELSE IF HasPrefixAt(s, a, "README.md\"") THEN a + Len("README.md\"")
        ELSE IF HasPrefixAt(s, a, "exercises/")
             THEN RunThenTail(s, a + Len("exercises/"), ".md\"")
        ELSE 0

\* re2 = exercises/([^"]+)\.md, FindStringSubmatch(match)[1]  (main.go:212-213)
\* The first group of the leftmost match, "" when there is no match
\* (len(matches) = 0).
Re2Submatch(match) ==
    LET lit == "exercises/"
        S   == {p \in 1..Len(match) :
                   /\ HasPrefixAt(match, p, lit)
                   /\ RunThenTail(match, p + Len(lit), ".md") # 0}
    IN  IF S = {} THEN ""
        ELSE LET p == Min(S)
                 b == p + Len(lit)
                 e == RunThenTail(match, b, ".md")
             IN  SubSeq(match, b, e - Len(".md") - 1)

Re2Matches(match) ==
    \E p \in 1..Len(match) :
        /\ HasPrefixAt(match, p, "exercises/")
        /\ RunThenTail(match, p + Len("exercises/"), ".md") # 0

\* Mutant of Re1Replace: the README.md case is missing.
Re1ReplaceNoReadme(match) ==
    IF Re2Matches(match)
    THEN "href=\"" \o Re2Submatch(match) \o ".html\""
    ELSE match

\* Mutant of Re1Replace: only the reference ../README.md itself goes to the
\* landing page.
Re1ReplaceReadmeExact(match) ==
    IF match = "href=\"../README.md\"" THEN "href=\"index.html\""
    ELSE IF Re2Matches(match)
         THEN "href=\"" \o Re2Submatch(match) \o ".html\""
    ELSE match

\* The function given to ReplaceAllStringFunc (main.go:207-218)
Re1Replace(match) ==
    IF Contains(match, "README.md") THEN "href=\"index.html\""
    ELSE IF Re2Matches(match)
         THEN "href=\"" \o Re2Submatch(match) \o ".html\""
    ELSE match

\* re.ReplaceAllStringFunc(html, ...) from position p on (main.go:207): the
\* text up to the leftmost match at or after p is copied, the match is
\* replaced, and the scan resumes after the match.
RECURSIVE ReplaceAllRe1(_, _)
\* Mutant of ReplaceAllRe1: the scan resumes one character after the end of
\* a match.
ReplaceAllRe1SkipsOne(s, p) ==
    LET S == {q \in p..Len(s) : Re1MatchAt(s, q) # 0}
    IN  IF S = {} THEN SubSeq(s, p, Len(s))
        ELSE LET q == Min(S)
                 e == Re1MatchAt(s, q)
             IN  SubSeq(s, p, q - 1) \o Re1Replace(SubSeq(s, q, e - 1))
                                    \o ReplaceAllRe1(s, e + 1)

ReplaceAllRe1(s, p) ==
    LET S == {q \in p..Len(s) : Re1MatchAt(s, q) # 0}
    IN  IF S = {} THEN SubSeq(s, p, Len(s))
        ELSE LET q == Min(S)
                 e == Re1MatchAt(s, q)
             IN  SubSeq(s, p, q - 1) \o Re1Replace(SubSeq(s, q, e - 1))
                                    \o ReplaceAllRe1(s, e)

\* Mutant of Re3MatchAt: the two digits and the '-' are not asked for.
Re3MatchAtAnyName(s, p) ==
    LET pre == "href=\""
        a   == p + Len(pre)
    IN  IF ~HasPrefixAt(s, p, pre) THEN 0
        ELSE RunThenTail(s, a, ".md\"")

\* re = href="([0-9]{2}-[^"]+)\.md"                           (main.go:221)
Re3MatchAt(s, p) ==
    LET pre == "href=\""
        a   == p + Len(pre)
    IN  IF ~HasPrefixAt(s, p, pre) THEN 0
        ELSE IF /\ a + 2 <= Len(s)
                /\ CharAt(s, a) \in Digits
                /\ CharAt(s, a + 1) \in Digits
                /\ CharAt(s, a + 2) = "-"
             THEN RunThenTail(s, a + 3, ".md\"")
        ELSE 0

\* Mutant of Re3Replace: the group takes the extension with it.
Re3ReplaceKeepsMd(match) ==
    "href=\"" \o SubSeq(match, Len("href=\"") + 1, Len(match) - 1) \o ".html\""

\* The template `href="$1.html"` expanded for one match (main.go:222): $1 is
\* the match without its leading href=" and its trailing .md"
Re3Replace(match) ==
    "href=\"" \o SubSeq(match, Len("href=\"") + 1, Len(match) - Len(".md\""))
              \o ".html\""

\* re.ReplaceAllString(html, `href="$1.html"`) from position p on (main.go:222)
RECURSIVE ReplaceAllRe3(_, _)
\* Mutant of ReplaceAllRe3: only the first match is replaced.
ReplaceFirstRe3(s, p) ==
    LET S == {q \in p..Len(s) : Re3MatchAt(s, q) # 0}
    IN  IF S = {} THEN SubSeq(s, p, Len(s))
        ELSE LET q == Min(S)
                 e == Re3MatchAt(s, q)
             IN  SubSeq(s, p, q - 1) \o Re3Replace(SubSeq(s, q, e - 1))
                                    \o SubSeq(s, e, Len(s))

ReplaceAllRe3(s, p) ==
    LET S == {q \in p..Len(s) : Re3MatchAt(s, q) # 0}
    IN  IF S = {} THEN SubSeq(s, p, Len(s))
        ELSE LET q == Min(S)
                 e == Re3MatchAt(s, q)
             IN  SubSeq(s, p, q - 1) \o Re3Replace(SubSeq(s, q, e - 1))
                                    \o ReplaceAllRe3(s, e)

fixRelativeLinks(h) == ReplaceAllRe3(ReplaceAllRe1(h, 1), 1)

---------------------------------------------------------------------------
(* The collaborators of main.go                                            *)

\* html/template's escaping of a text value
EscapeChar(c) ==
    CASE c = "&" -> "&amp;"
      [] c = "<" -> "&lt;"
      [] c = ">" -> "&gt;"
      [] c = Q   -> "&#34;"
      [] c = "'" -> "&#39;"
      [] c = "+" -> "&#43;"
      [] OTHER   -> c

RECURSIVE HTMLEscape(_)
HTMLEscape(s) ==
    IF Len(s) = 0 THEN ""
    ELSE IF Len(s) = 1 THEN EscapeChar(s)
    ELSE LET m == Len(s) \div 2
         IN  HTMLEscape(SubSeq(s, 1, m)) \o HTMLEscape(SubSeq(s, m + 1, Len(s)))

\* blackfriday.Run, as far as this model follows it: a paragraph of text in
\* which every inline link [text](target) becomes <a href="target">text</a>
LinkMid(md, p) ==
    LET mids == {k \in (p + 1)..Len(md) : HasPrefixAt(md, k, "](")}
    IN  IF CharAt(md, p) = "[" /\ mids # {} THEN Min(mids) ELSE 0

LinkEnd(md, p) ==
    LET mid  == LinkMid(md, p)
        ends == {k \in (mid + 2)..Len(md) : CharAt(md, k) = ")"}
    IN  IF mid # 0 /\ ends # {} THEN Min(ends) ELSE 0

RECURSIVE RenderInline(_, _)
RenderInline(md, p) ==
    LET S == {k \in p..Len(md) : LinkEnd(md, k) # 0}
    IN  IF S = {} THEN HTMLEscape(SubSeq(md, p, Len(md)))
        ELSE LET k   == Min(S)
                 mid == LinkMid(md, k)
                 end == LinkEnd(md, k)
             IN  HTMLEscape(SubSeq(md, p, k - 1))
                     \o "<a href=\"" \o SubSeq(md, mid + 2, end - 1) \o "\">"
                     \o HTMLEscape(SubSeq(md, k + 1, mid - 1)) \o "</a>"
                     \o RenderInline(md, end + 1)

blackfridayRun(markdown) == "<p>" \o RenderInline(markdown, 1) \o "</p>\n"

---------------------------------------------------------------------------
(* main.go: data                                                           *)

\* var exerciseMetadata = []struct{...}{...}  (main.go:30-47).  The emoji are
\* written by their code points (U1F331 for U+1F331).
ExerciseMetadataLiteral ==
    << [Filename    |-> "00-introduction-setup.md",
        Title       |-> "Introduction and Setup",
        Emoji       |-> "U1F331",
        Description |-> "Get started by cloning and setting up the Go source code environment."],
       [Filename    |-> "01-compile-go-unchanged.md",
        Title       |-> "Compiling Go Without Changes",
        Emoji       |-> "U1F528",
        Description |-> "Learn to build the Go toolchain from source without any modifications."],
       [Filename    |-> "02-scanner-arrow-operator.md",
        Title       |-> "Adding the \"=>\" Arrow Operator for Goroutines",
        Emoji       |-> "U26A1",
        Description |-> "Learn scanner/lexer modification by adding \"=>\" as an alternative syntax for starting goroutines."],
       [Filename    |-> "03-parser-multiple-go.md",
        Title       |-> "Multiple \"go\" Keywords - Parser Enhancement",
        Emoji       |-> "U1F504",
        Description |-> "Learn parser modification by enabling multiple consecutive \"go\" keywords (go go go myFunction)."],
       [Filename    |-> "04-compiler-inlining-parameters.md",
        Title       |-> "Inline Parameters - Function Inlining Experiments",
        Emoji       |-> "U2699",
        Description |-> "Explore the inliner behavior by modifying function inlining parameters."],
       [Filename    |-> "05-gofmt-ast-transformation.md",
        Title       |-> "gofmt Transformation - \"hello\" to \"helo\"",
        Emoji       |-> "U1F3A8",
        Description |-> "Learn about Go's tools by modifying gofmt to modify \"hello\" to \"helo\" in code."],
       [Filename    |-> "06-ssa-power-of-two-detector.md",
        Title       |-> "SSA Pass - Detecting Division by Powers of Two",
        Emoji       |-> "U1F50D",
        Description |-> "Create a custom SSA compiler pass that detects division operations by powers of two that could be optimized to bit shifts."],
       [Filename    |-> "07-runtime-patient-go.md",
        Title       |-> "Patient Go - Making Go Wait for Goroutines",
        Emoji       |-> "U1F570",
        Description |-> "Modify the Go runtime to wait for all goroutines to complete before program termination."],
       [Filename    |-> "08-goroutine-sleep-detective.md",
        Title       |-> "Goroutine Sleep Detective - Runtime State Monitoring",
        Emoji       |-> "U1F575",
        Description |-> "Add logging to the Go scheduler to monitor goroutines going to sleep."],
       [Filename    |-> "09-predictable-select.md",
        Title       |-> "Predictable Select - Removing Randomness from Go's Select Statement",
        Emoji       |-> "U1F3AF",
        Description |-> "Modify Go's select statement implementation to be deterministic instead of random."],
       [Filename    |-> "10-java-style-stack-traces.md",
        Title       |-> "Java-Style Stack Traces - Making Go Panics Look Familiar",
        Emoji       |-> "U2615",
        Description |-> "Transform Go's verbose stack traces into Java-style formatting."] >>

\* The runs checked are over the first n descriptors of the list, for every
\* n from 1 to MaxExercises.
MaxExercises == 3

\* const cssTemplate (templates.go)
cssTemplate == "/* style.css */"

\* The zero value Exercise{}
ZeroExercise ==
    [Number |-> 0, Title |-> "", Emoji |-> "", Description |-> "",
     Filename |-> "", Content |-> "", PrevLink |-> "", NextLink |-> ""]

\* What the exercise files may hold
SampleMarkdown ==
    { "Continue to [Exercise 1](01-compile-go-unchanged.md) or return to the [main workshop](../README.md)",
      "In [Exercise 1: \"Compiling\"](./01-compile-go-unchanged.md), you build Go." }

\* Another file of the exercises directory, not one exerciseMetadata names
ExtraSource == "11-extra-exercise.md"

ExtraMarkdown == "An exercise that exerciseMetadata does not list."

\* *outputDir and the directories above it, outermost first: the value of
\* the -output flag  (main.go:51; README.md:49 for the value)
outputPath == << "/path", "/path/to", "/path/to/output" >>

outputDir == outputPath[Len(outputPath)]

\* The first k directories of the path
Above(k) == {outputPath[j] : j \in 1..k}

\* Another file of the output directory, not one the generator names
OtherFile == "notes.txt"

StaleBytes == "stale"

---------------------------------------------------------------------------
(* main.go: functions                                                      *)

\* markdownToHTML  (main.go:188-202)
markdownToHTML(markdown) == fixRelativeLinks(blackfridayRun(markdown))

\* strings.TrimRight: the trailing characters of the cutset are removed
TrimRight(s, cutset) ==
    LET K == {k \in 0..Len(s) : \A i \in (k + 1)..Len(s) : CharAt(s, i) \in cutset}
    IN  SubSeq(s, 1, Min(K))

\* Mutant of htmlFilename: the name is cut at its first ".md", wherever it
\* stands.
htmlFilenameFirstMd(meta) ==
    LET S == {p \in 1..Len(meta.Filename) : HasPrefixAt(meta.Filename, p, ".md")}
    IN  (IF S = {} THEN meta.Filename ELSE SubSeq(meta.Filename, 1, Min(S) - 1))
            \o ".html"

\* Mutant of htmlFilename: strings.TrimRight in place of strings.TrimSuffix.
htmlFilenameTrimRight(meta) == TrimRight(meta.Filename, {".", "m", "d"}) \o ".html"

\* htmlFilename := strings.TrimSuffix(meta.Filename, ".md") + ".html"  (main.go:105)
htmlFilename(meta) == TrimSuffix(meta.Filename, ".md") \o ".html"

\* Mutant of prevLink: the source file name is used as it is.
prevLinkSourceName(idx) ==
    IF idx > 0
    THEN exerciseMetadata[(idx - 1) + 1].Filename
    ELSE "index.html"

\* prevLink  (main.go:108-111); idx is the zero-based index
prevLink(idx) ==
    IF idx > 0
    THEN TrimSuffix(exerciseMetadata[(idx - 1) + 1].Filename, ".md") \o ".html"
    ELSE "index.html"

\* Mutant of nextLink: the link is made only when the source of the next
\* descriptor is there.
nextLinkChecked(idx) ==
    IF idx + 1 < Len(exerciseMetadata)
       /\ exerciseMetadata[(idx + 1) + 1].Filename \in DOMAIN srcFiles
    THEN TrimSuffix(exerciseMetadata[(idx + 1) + 1].Filename, ".md") \o ".html"
    ELSE ""

\* Mutant of nextLink: the bound is len(exerciseMetadata)-2.
nextLinkOffByOne(idx) ==
    IF idx + 2 < Len(exerciseMetadata)
    THEN TrimSuffix(exerciseMetadata[(idx + 1) + 1].Filename, ".md") \o ".html"
    ELSE ""

\* nextLink  (main.go:113-116)
nextLink(idx) ==
    IF idx + 1 < Len(exerciseMetadata)
    THEN TrimSuffix(exerciseMetadata[(idx + 1) + 1].Filename, ".md") \o ".html"
    ELSE ""

\* Mutant of newExercise: the exercises are numbered from one.
newExerciseNumberFromOne(meta, idx, content) ==
    [Number      |-> idx + 1,
     Title       |-> meta.Title,
     Emoji       |-> meta.Emoji,
     Description |-> meta.Description,
     Filename    |-> htmlFilename(meta),
     Content     |-> markdownToHTML(content),
     PrevLink    |-> prevLink(idx),
     NextLink    |-> nextLink(idx)]

\* exercise := Exercise{...}  (main.go:101-127)
newExercise(meta, idx, content) ==
    [Number      |-> idx,
     Title       |-> meta.Title,
     Emoji       |-> meta.Emoji,
     Description |-> meta.Description,
     Filename    |-> htmlFilename(meta),
     Content     |-> markdownToHTML(content),
     PrevLink    |-> prevLink(idx),
     NextLink    |-> nextLink(idx)]

\* Mutant of ExecuteExerciseTemplate: the next control is not under
\* {{if .NextLink}}.
ExecuteExerciseTemplateAlwaysNext(e) ==
    "<title>Exercise " \o ToString(e.Number) \o ": " \o HTMLEscape(e.Title)
        \o " - Go Source Code Workshop</title>\n"
    \o "<article class=\"exercise-content\">" \o e.Content \o "</article>\n"
    \o "<nav class=\"exercise-nav\">"
    \o (IF e.PrevLink # ""
        THEN "<a href=\"" \o HTMLEscape(e.PrevLink) \o "\" class=\"nav-button\">"
                 \o (IF e.PrevLink = "index.html" THEN "<- Home" ELSE "<- Previous")
                 \o "</a>"
        ELSE "")
    \o "<a href=\"" \o HTMLEscape(e.NextLink) \o "\" class=\"nav-button\">"
    \o "Next: Exercise " \o ToString(e.Number + 1) \o " -></a>"
    \o "</nav>\n"

\* exerciseTemplate executed on an Exercise  (main.go:227-302): the title,
\* the content and the navigation strip; the fixed markup around them is
\* left out.
ExecuteExerciseTemplate(e) ==
    "<title>Exercise " \o ToString(e.Number) \o ": " \o HTMLEscape(e.Title)
        \o " - Go Source Code Workshop</title>\n"
    \o "<article class=\"exercise-content\">" \o e.Content \o "</article>\n"
    \o "<nav class=\"exercise-nav\">"
    \o (IF e.PrevLink # ""
        THEN "<a href=\"" \o HTMLEscape(e.PrevLink) \o "\" class=\"nav-button\">"
                 \o (IF e.PrevLink = "index.html" THEN "<- Home" ELSE "<- Previous")
                 \o "</a>"
        ELSE "")
    \o (IF e.NextLink # ""
        THEN "<a href=\"" \o HTMLEscape(e.NextLink) \o "\" class=\"nav-button\">"
                 \o "Next: Exercise " \o ToString(e.Number + 1) \o " -></a>"
        ELSE "")
    \o "</nav>\n"

\* Mutant of ExerciseCard: the number shown is .Number + 1.
ExerciseCardPlusOne(e) ==
    "<div class=\"exercise-card\">"
    \o "<div class=\"exercise-number\">Exercise " \o ToString(e.Number + 1) \o "</div>"
    \o "<h3>" \o HTMLEscape(e.Emoji) \o " <a href=\"" \o HTMLEscape(e.Filename)
        \o "\">" \o HTMLEscape(e.Title) \o "</a></h3>"
    \o "<p>" \o HTMLEscape(e.Description) \o "</p>"
    \o "</div>\n"

\* The body of {{range .Exercises}}  (main.go:380-386)
ExerciseCard(e) ==
    "<div class=\"exercise-card\">"
    \o "<div class=\"exercise-number\">Exercise " \o ToString(e.Number) \o "</div>"
    \o "<h3>" \o HTMLEscape(e.Emoji) \o " <a href=\"" \o HTMLEscape(e.Filename)
        \o "\">" \o HTMLEscape(e.Title) \o "</a></h3>"
    \o "<p>" \o HTMLEscape(e.Description) \o "</p>"
    \o "</div>\n"

RECURSIVE RangeExercises(_, _)
RangeExercises(exs, j) ==
    IF j > Len(exs) THEN "" ELSE ExerciseCard(exs[j]) \o RangeExercises(exs, j + 1)

\* indexTemplate executed on IndexData{Exercises: exs}  (main.go:304-465):
\* the overview sentence and the grid; the fixed markup around them is left
\* out.
ExecuteIndexTemplate(exs) ==
    "<p>This workshop consists of " \o ToString(Len(exs)) \o " exercises</p>\n"
    \o "<div class=\"exercises-grid\">\n"
    \o RangeExercises(exs, 1)
    \o "</div>\n"

---------------------------------------------------------------------------
(* main.go: the run                                                        *)

Event(op, name, ok) == [op |-> op, name |-> name, ok |-> ok]

\* What a write that fails part-way may leave in the file
Partial(bytes) == {SubSeq(bytes, 1, n) : n \in {0, Len(bytes) \div 2}}

\* f holds bytes; the other files are as they were
WriteTo(files, f, bytes) ==
    [g \in DOMAIN files \cup {f} |-> IF g = f THEN bytes ELSE files[g]]

\* fmt.Fprintf(os.Stderr, ...); os.Exit(1)
Exit1(op, name, message) ==
    /\ log' = Append(log, Event(op, name, FALSE))
    /\ stderr' = Append(stderr, message)
    /\ pc' = "exit1"

\* Mutant of meta: the list is ranged over from its end.
metaReversed == exerciseMetadata[Len(exerciseMetadata) - index]

meta == exerciseMetadata[index + 1]

\* The names an earlier run over the same descriptors has left in the output
\* directory when it got as far as step j: the first j pages, then
\* index.html, then style.css
LeftBy(metadata, j) ==
    {htmlFilename(metadata[k]) : k \in {n \in DOMAIN metadata : n <= j}}
        \cup (IF j > Len(metadata) THEN {"index.html"} ELSE {})
        \cup (IF j > Len(metadata) + 1 THEN {"style.css"} ELSE {})

\* What the output directory may hold as the run starts: what an earlier
\* run left, with or without a file of another name
StaleSets(metadata) ==
    {LeftBy(metadata, j) \cup other :
        j \in 0..(Len(metadata) + 2), other \in {{}, {OtherFile}}}

\* Whether *outputDir exists
outDirExists == outputDir \in dirs

ConfiguredCount == Len(ExerciseMetadataLiteral)

InitRun ==
    /\ \E n \in 1..(IF MaxExercises < ConfiguredCount THEN MaxExercises ELSE ConfiguredCount) :
           exerciseMetadata = SubSeq(ExerciseMetadataLiteral, 1, n)
    /\ \E present \in SUBSET {exerciseMetadata[j].Filename : j \in DOMAIN exerciseMetadata},
          extra \in {{}, {ExtraSource}} :
           \E configured \in [present -> SampleMarkdown] :
               srcFiles = [f \in present \cup extra |->
                              IF f \in present THEN configured[f] ELSE ExtraMarkdown]
    /\ \E k \in 0..Len(outputPath) : dirs = Above(k)
    /\ \E stale \in StaleSets(exerciseMetadata) :
           /\ ~outDirExists => stale = {}
           /\ outFiles = [f \in stale |-> StaleBytes]
    /\ outFiles0 = outFiles
    /\ pc = "MkdirAll"
    /\ index = 0
    /\ exercise = ZeroExercise
    /\ exercises = <<>>
    /\ stdout = <<>>
    /\ stderr = <<>>
    /\ log = <<>>
    /\ earlier = <<>>

LinksIdle ==
    /\ html = ""
    /\ once = ""
    /\ twice = ""
    /\ lpc = "off"

\* The state of the run's variables under SpecLinks
RunIdle ==
    /\ exerciseMetadata = <<>>
    /\ srcFiles = <<>>
    /\ dirs = {}
    /\ outFiles = <<>>
    /\ outFiles0 = <<>>
    /\ pc = "off"
    /\ index = 0
    /\ exercise = ZeroExercise
    /\ exercises = <<>>
    /\ stdout = <<>>
    /\ stderr = <<>>
    /\ log = <<>>
    /\ earlier = <<>>

\* The state of the variables of SpecNames under the other specifications
NamesIdle ==
    /\ filename = ""
    /\ htmlName = ""
    /\ npc = "off"

\* The state of the variables of SpecPatient under the other specifications
PatientIdle ==
    /\ allgs = <<>>
    /\ mpc = "off"

\* The state of the variables of SpecParser under the other specifications
ParserIdle ==
    /\ toks = <<>>
    /\ tokpos = 0
    /\ stmts = <<>>
    /\ ppc = "off"

Init == InitRun /\ LinksIdle /\ NamesIdle /\ PatientIdle /\ ParserIdle

\* Mutant of MkdirAllOk: the directory is emptied before it is created
\* (os.RemoveAll).
MkdirAllOkClean ==
    /\ pc = "MkdirAll"
    /\ dirs' = Above(Len(outputPath))
    /\ outFiles' = <<>>
    /\ log' = Append(log, Event("MkdirAll", "", TRUE))
    /\ pc' = "ReadFile"
    /\ UNCHANGED <<besideRun, earlier, exerciseMetadata, srcFiles, index, exercise,
                   exercises, stdout, stderr, outFiles0>>

\* os.MkdirAll(*outputDir, 0755) succeeds: the directory and every directory
\* above it exist  (main.go:55)
MkdirAllOk ==
    /\ pc = "MkdirAll"
    /\ dirs' = Above(Len(outputPath))
    /\ log' = Append(log, Event("MkdirAll", "", TRUE))
    /\ pc' = "ReadFile"
    /\ UNCHANGED <<besideRun, earlier, exerciseMetadata, srcFiles, outFiles, index, exercise,
                   exercises, stdout, stderr, outFiles0>>

\* Mutant of MkdirAllErr: the error is reported and main goes on.
MkdirAllErrIgnored ==
    /\ pc = "MkdirAll"
    /\ ~outDirExists
    /\ \E k \in Cardinality(dirs)..(Len(outputPath) - 1) : dirs' = Above(k)
    /\ log' = Append(log, Event("MkdirAll", "", FALSE))
    /\ stderr' = Append(stderr, "Error creating output directory: mkdir: permission denied")
    /\ pc' = "ReadFile"
    /\ UNCHANGED <<besideRun, earlier, exerciseMetadata, srcFiles, outFiles, index,
                   exercise, exercises, stdout, outFiles0>>

\* os.MkdirAll fails: the directory is absent and one of the missing
\* directories of the path cannot be created; those above it have been
\* created  (main.go:55-58)
MkdirAllErr ==
    /\ pc = "MkdirAll"
    /\ ~outDirExists
    /\ \E k \in Cardinality(dirs)..(Len(outputPath) - 1) : dirs' = Above(k)
    /\ Exit1("MkdirAll", "", "Error creating output directory: mkdir: permission denied")
    /\ UNCHANGED <<besideRun, earlier, exerciseMetadata, srcFiles, outFiles, index,
                   exercise, exercises, stdout, outFiles0>>

\* Mutant of ReadFileOk: the output file is made as the Exercise is built.
ReadFileOkCreatesFirst ==
    /\ pc = "ReadFile"
    /\ meta.Filename \in DOMAIN srcFiles
    /\ exercise' = newExercise(meta, index, srcFiles[meta.Filename])
    /\ outFiles' = WriteTo(outFiles, htmlFilename(meta), "")
    /\ log' = Append(log, Event("ReadFile", meta.Filename, TRUE))
    /\ pc' = "Create"
    /\ UNCHANGED <<besideRun, earlier, exerciseMetadata, srcFiles, dirs, index,
                   exercises, stdout, stderr, outFiles0>>

\* generateExercisePage up to the parsed template: os.ReadFile succeeds, the
\* markdown is converted and the Exercise is built  (main.go:63, 94-137)
ReadFileOk ==
    /\ pc = "ReadFile"
    /\ meta.Filename \in DOMAIN srcFiles
    /\ exercise' = newExercise(meta, index, srcFiles[meta.Filename])
    /\ log' = Append(log, Event("ReadFile", meta.Filename, TRUE))
    /\ pc' = "Create"
    /\ UNCHANGED <<besideRun, earlier, exerciseMetadata, srcFiles, dirs, outFiles, index,
                   exercises, stdout, stderr, outFiles0>>

\* Mutant of ReadFileErr: the page and the index an earlier run left are
\* removed before the exit, as they are out of date.
ReadFileErrRemovesStale ==
    /\ pc = "ReadFile"
    /\ meta.Filename \notin DOMAIN srcFiles
    /\ Exit1("ReadFile", meta.Filename,
             "Error generating exercise " \o meta.Filename
                 \o ": reading markdown file: no such file or directory")
    /\ outFiles' = [f \in DOMAIN outFiles \ {htmlFilename(meta), "index.html"}
                        |-> outFiles[f]]
    /\ UNCHANGED <<besideRun, earlier, exerciseMetadata, srcFiles, dirs, index,
                   exercise, exercises, stdout, outFiles0>>

\* Mutant of ReadFileErr: the error is reported and the loop goes on with the
\* next descriptor.
ReadFileErrContinue ==
    /\ pc = "ReadFile"
    /\ meta.Filename \notin DOMAIN srcFiles
    /\ log' = Append(log, Event("ReadFile", meta.Filename, FALSE))
    /\ stderr' = Append(stderr, "Error generating exercise " \o meta.Filename
                                \o ": reading markdown file: no such file or directory")
    /\ index' = index + 1
    /\ pc' = IF index + 1 < Len(exerciseMetadata) THEN "ReadFile" ELSE "IndexCreate"
    /\ UNCHANGED <<besideRun, earlier, exerciseMetadata, srcFiles, dirs, outFiles,
                   exercise, exercises, stdout, outFiles0>>

\* Mutant of ReadFileErr: the pages generated so far are removed before the
\* exit.
ReadFileErrRollback ==
    /\ pc = "ReadFile"
    /\ meta.Filename \notin DOMAIN srcFiles
    /\ Exit1("ReadFile", meta.Filename,
             "Error generating exercise " \o meta.Filename
                 \o ": reading markdown file: no such file or directory")
    /\ outFiles' = [f \in DOMAIN outFiles \ {exercises[j].Filename : j \in DOMAIN exercises}
                        |-> outFiles[f]]
    /\ UNCHANGED <<besideRun, earlier, exerciseMetadata, srcFiles, dirs, index,
                   exercise, exercises, stdout, outFiles0>>

\* os.ReadFile fails: generateExercisePage returns the error and main exits
\* (main.go:96-99, 64-67)
ReadFileErr ==
    /\ pc = "ReadFile"
    /\ meta.Filename \notin DOMAIN srcFiles
    /\ Exit1("ReadFile", meta.Filename,
             "Error generating exercise " \o meta.Filename
                 \o ": reading markdown file: no such file or directory")
    /\ UNCHANGED <<besideRun, earlier, exerciseMetadata, srcFiles, dirs, outFiles, index,
                   exercise, exercises, stdout, outFiles0>>

\* os.Create(outputPath) succeeds: the file exists and is empty
\* (main.go:139-144)
CreateOk ==
    /\ pc = "Create"
    /\ outFiles' = WriteTo(outFiles, exercise.Filename, "")
    /\ log' = Append(log, Event("Create", exercise.Filename, TRUE))
    /\ pc' = "Execute"
    /\ UNCHANGED <<besideRun, earlier, exerciseMetadata, srcFiles, dirs, index, exercise,
                   exercises, stdout, stderr, outFiles0>>

\* Mutant of CreateErr: the error is reported and os.Create is tried again.
CreateErrRetry ==
    /\ pc = "Create"
    /\ log' = Append(log, Event("Create", exercise.Filename, FALSE))
    /\ stderr' = Append(stderr, "Error generating exercise " \o meta.Filename
                                \o ": creating output file: permission denied")
    /\ UNCHANGED <<besideRun, earlier, exerciseMetadata, srcFiles, dirs, outFiles,
                   pc, index, exercise, exercises, stdout, outFiles0>>

\* os.Create fails  (main.go:140-143, 64-67)
CreateErr ==
    /\ pc = "Create"
    /\ Exit1("Create", exercise.Filename,
             "Error generating exercise " \o meta.Filename
                 \o ": creating output file: permission denied")
    /\ UNCHANGED <<besideRun, earlier, exerciseMetadata, srcFiles, dirs, outFiles, index,
                   exercise, exercises, stdout, outFiles0>>

\* Mutant of loopDone: the loop stops one descriptor early.
loopDoneEarly(idx) == idx + 1 >= Len(exerciseMetadata)

\* The range loop of main is over  (main.go:62)
loopDone(idx) == idx >= Len(exerciseMetadata)

\* Mutant of ExecuteOk: generateIndexPage is called as soon as a page is
\* written.
ExecuteOkThenIndex ==
    /\ pc = "Execute"
    /\ outFiles' = WriteTo(outFiles, exercise.Filename, ExecuteExerciseTemplate(exercise))
    /\ log' = Append(log, Event("Execute", exercise.Filename, TRUE))
    /\ stdout' = Append(stdout, "Generated " \o exercise.Filename)
    /\ exercises' = Append(exercises, exercise)
    /\ index' = index + 1
    /\ pc' = "IndexCreate"
    /\ UNCHANGED <<besideRun, earlier, exerciseMetadata, srcFiles, dirs, exercise, stderr,
                   outFiles0>>

\* tmpl.Execute(f, exercise) succeeds; the page is reported, returned and
\* appended, and the loop goes on  (main.go:146-151, 68, 62)
ExecuteOk ==
    /\ pc = "Execute"
    /\ outFiles' = WriteTo(outFiles, exercise.Filename, ExecuteExerciseTemplate(exercise))
    /\ log' = Append(log, Event("Execute", exercise.Filename, TRUE))
    /\ stdout' = Append(stdout, "Generated " \o exercise.Filename)
    /\ exercises' = Append(exercises, exercise)
    /\ index' = index + 1
    /\ pc' = IF loopDone(index + 1) THEN "IndexCreate" ELSE "ReadFile"
    /\ UNCHANGED <<besideRun, earlier, exerciseMetadata, srcFiles, dirs, exercise, stderr,
                   outFiles0>>

\* Mutant of ExecuteErr: the error is reported and the page is generated
\* again from its source.
ExecuteErrRetry ==
    /\ pc = "Execute"
    /\ \E bytes \in Partial(ExecuteExerciseTemplate(exercise)) :
           outFiles' = WriteTo(outFiles, exercise.Filename, bytes)
    /\ log' = Append(log, Event("Execute", exercise.Filename, FALSE))
    /\ stderr' = Append(stderr, "Error generating exercise " \o meta.Filename
                                \o ": executing template: no space left on device")
    /\ pc' = "ReadFile"
    /\ UNCHANGED <<besideRun, earlier, exerciseMetadata, srcFiles, dirs, index, exercise,
                   exercises, stdout, outFiles0>>

\* tmpl.Execute fails on a write: part of the page is in the file
\* (main.go:146-148, 64-67)
ExecuteErr ==
    /\ pc = "Execute"
    /\ \E bytes \in Partial(ExecuteExerciseTemplate(exercise)) :
           outFiles' = WriteTo(outFiles, exercise.Filename, bytes)
    /\ Exit1("Execute", exercise.Filename,
             "Error generating exercise " \o meta.Filename
                 \o ": executing template: no space left on device")
    /\ UNCHANGED <<besideRun, earlier, exerciseMetadata, srcFiles, dirs, index, exercise,
                   exercises, stdout, outFiles0>>

\* generateIndexPage: os.Create succeeds  (main.go:72, 155-165)
IndexCreateOk ==
    /\ pc = "IndexCreate"
    /\ outFiles' = WriteTo(outFiles, "index.html", "")
    /\ log' = Append(log, Event("Create", "index.html", TRUE))
    /\ pc' = "IndexExecute"
    /\ UNCHANGED <<besideRun, earlier, exerciseMetadata, srcFiles, dirs, index, exercise,
                   exercises, stdout, stderr, outFiles0>>

\* generateIndexPage: os.Create fails  (main.go:161-164, 72-75)
IndexCreateErr ==
    /\ pc = "IndexCreate"
    /\ Exit1("Create", "index.html",
             "Error generating index page: creating output file: permission denied")
    /\ UNCHANGED <<besideRun, earlier, exerciseMetadata, srcFiles, dirs, outFiles, index,
                   exercise, exercises, stdout, outFiles0>>

\* generateIndexPage: tmpl.Execute succeeds  (main.go:167-173)
IndexExecuteOk ==
    /\ pc = "IndexExecute"
    /\ outFiles' = WriteTo(outFiles, "index.html", ExecuteIndexTemplate(exercises))
    /\ log' = Append(log, Event("Execute", "index.html", TRUE))
    /\ stdout' = Append(stdout, "Generated index.html")
    /\ pc' = "WriteCSS"
    /\ UNCHANGED <<besideRun, earlier, exerciseMetadata, srcFiles, dirs, index, exercise,
                   exercises, stderr, outFiles0>>

\* generateIndexPage: tmpl.Execute fails on a write  (main.go:168-170, 72-75)
IndexExecuteErr ==
    /\ pc = "IndexExecute"
    /\ \E bytes \in Partial(ExecuteIndexTemplate(exercises)) :
           outFiles' = WriteTo(outFiles, "index.html", bytes)
    /\ Exit1("Execute", "index.html",
             "Error generating index page: executing template: no space left on device")
    /\ UNCHANGED <<besideRun, earlier, exerciseMetadata, srcFiles, dirs, index, exercise,
                   exercises, stdout, outFiles0>>

\* filepath.Join(outputDir, "style.css")  (main.go:178)
cssName == "style.css"

\* Mutant of WriteCSSOk: the file is opened for appending instead of being
\* truncated.
WriteCSSOkAppend ==
    /\ pc = "WriteCSS"
    /\ outFiles' = WriteTo(outFiles, cssName,
                           (IF cssName \in DOMAIN outFiles THEN outFiles[cssName] ELSE "")
                               \o cssTemplate)
    /\ log' = Append(log, Event("WriteFile", cssName, TRUE))
    /\ stdout' = Append(stdout, "Generated style.css")
    /\ pc' = "Summary"
    /\ UNCHANGED <<besideRun, earlier, exerciseMetadata, srcFiles, dirs, index, exercise,
                   exercises, stderr, outFiles0>>

\* copyCSSFile: os.WriteFile succeeds  (main.go:78, 176-186)
WriteCSSOk ==
    /\ pc = "WriteCSS"
    /\ outFiles' = WriteTo(outFiles, cssName, cssTemplate)
    /\ log' = Append(log, Event("WriteFile", cssName, TRUE))
    /\ stdout' = Append(stdout, "Generated style.css")
    /\ pc' = "Summary"
    /\ UNCHANGED <<besideRun, earlier, exerciseMetadata, srcFiles, dirs, index, exercise,
                   exercises, stderr, outFiles0>>

\* Mutant of WriteCSSErr: the error is reported and main goes on to the
\* summary.
WriteCSSErrIgnored ==
    /\ pc = "WriteCSS"
    /\ log' = Append(log, Event("WriteFile", cssName, FALSE))
    /\ stderr' = Append(stderr, "Error copying CSS file: writing CSS file: no space left on device")
    /\ pc' = "Summary"
    /\ UNCHANGED <<besideRun, earlier, exerciseMetadata, srcFiles, dirs, outFiles, index,
                   exercise, exercises, stdout, outFiles0>>

\* copyCSSFile: os.WriteFile fails, on opening the file (nothing changes) or
\* on writing it (part of the stylesheet is in the file)  (main.go:180-182,
\* 78-81)
WriteCSSErr ==
    /\ pc = "WriteCSS"
    /\ \/ UNCHANGED outFiles
       \/ \E bytes \in Partial(cssTemplate) :
              outFiles' = WriteTo(outFiles, cssName, bytes)
    /\ Exit1("WriteFile", cssName,
             "Error copying CSS file: writing CSS file: no space left on device")
    /\ UNCHANGED <<besideRun, earlier, exerciseMetadata, srcFiles, dirs, index, exercise,
                   exercises, stdout, outFiles0>>

SummaryLine == "Website generated successfully!"

\* The success summary; main returns  (main.go:83-86)
Summary ==
    /\ pc = "Summary"
    /\ stdout' = stdout \o << SummaryLine,
                              "Generated " \o ToString(Len(exercises))
                                  \o " exercise pages + index page" >>
    /\ log' = Append(log, Event("Println", "summary", TRUE))
    /\ pc' = "done"
    /\ UNCHANGED <<besideRun, earlier, exerciseMetadata, srcFiles, dirs, outFiles, index,
                   exercise, exercises, stderr, outFiles0>>

Next ==
    \/ MkdirAllOk \/ MkdirAllErr
    \/ ReadFileOk \/ ReadFileErr
    \/ CreateOk \/ CreateErr
    \/ ExecuteOk \/ ExecuteErr
    \/ IndexCreateOk \/ IndexCreateErr
    \/ IndexExecuteOk \/ IndexExecuteErr
    \/ WriteCSSOk \/ WriteCSSErr
    \/ Summary

Spec == Init /\ [][Next]_vars

\* The same run, named apart for the claims about the markup of the files
\* it writes
SpecPages == Init /\ [][Next]_vars

---------------------------------------------------------------------------
(* SpecRerun: main run again over the directory the run before left        *)

\* The runs checked are the first MaxRuns runs of main over one exercises
\* directory and one output directory.
MaxRuns == 2

\* main is started again after a run that succeeded: the descriptors, the
\* exercises directory and the output directory are as that run left them
\* (main.go:49-53)
Rerun ==
    /\ pc = "done"
    /\ Len(earlier) + 1 < MaxRuns
    /\ earlier' = Append(earlier, outFiles)
    /\ outFiles0' = outFiles
    /\ pc' = "MkdirAll"
    /\ index' = 0
    /\ exercise' = ZeroExercise
    /\ exercises' = <<>>
    /\ stdout' = <<>>
    /\ stderr' = <<>>
    /\ log' = <<>>
    /\ UNCHANGED <<besideRun, exerciseMetadata, srcFiles, dirs, outFiles>>

NextRerun == Next \/ Rerun

SpecRerun == Init /\ [][NextRerun]_vars

---------------------------------------------------------------------------
(* SpecLinks: fixRelativeLinks applied to bounded fragments                *)

\* The fragments are concatenations of at most MaxPieces of these pieces.
Pieces ==
    { "href=\"", "href=\"../", "README.md\"", "exercises/", "03-x.md\"",
      "03-x", ".md\"", ".html\"", "./", "notes.md\"", "#top\"",
      "https://example.com\"", "<p>t</p>", "\"",
      "href=\"../README.md\"", "href=\"03-topic.md\"" }

MaxPieces == 3

RECURSIVE Fragments(_)
Fragments(n) ==
    IF n = 0 THEN {""}
    ELSE LET F == Fragments(n - 1)
         IN  F \cup {f \o p : f \in F, p \in Pieces}

InitLinks ==
    /\ RunIdle
    /\ NamesIdle
    /\ PatientIdle
    /\ ParserIdle
    /\ html \in Fragments(MaxPieces)
    /\ once = ""
    /\ twice = ""
    /\ lpc = "input"

FixOnce ==
    /\ lpc = "input"
    /\ once' = fixRelativeLinks(html)
    /\ lpc' = "once"
    /\ UNCHANGED <<html, twice, runVars, nameVars, patientVars, parserVars>>

FixTwice ==
    /\ lpc = "once"
    /\ twice' = fixRelativeLinks(once)
    /\ lpc' = "twice"
    /\ UNCHANGED <<html, once, runVars, nameVars, patientVars, parserVars>>

NextLinks == FixOnce \/ FixTwice

SpecLinks == InitLinks /\ [][NextLinks]_vars

\* fixRelativeLinks on the anchors of a page: each href is a directory
\* part, a name and an extension, as the tutorials write their links
RefDirs == {"", "./", "../", "../exercises/"}

RefNames == {"02-scanner-arrow-operator", "notes", "README", "myREADME"}

Refs ==
    {"href=\"" \o d \o n \o ".md\"" : d \in RefDirs, n \in RefNames}
        \cup {"href=\"#top\"", "href=\"02-scanner-arrow-operator.html\""}

MaxRefs == 2

RECURSIVE Anchors(_)
Anchors(n) ==
    IF n = 0 THEN {""}
    ELSE LET F == Anchors(n - 1)
         IN  F \cup {f \o "<a " \o r \o ">" : f \in F, r \in Refs}

InitRefs ==
    /\ RunIdle
    /\ NamesIdle
    /\ PatientIdle
    /\ ParserIdle
    /\ html \in Anchors(MaxRefs)
    /\ once = ""
    /\ twice = ""
    /\ lpc = "input"

SpecRefs == InitRefs /\ [][NextLinks]_vars

---------------------------------------------------------------------------
(* SpecNames: htmlFilename applied to source file names                    *)

NameStems ==
    { "00-introduction-setup", "07-runtime-patient-go", "notes", "README",
      "cmd", "index", "a.b", "x.md", "" }

NameExtensions == { ".md", ".txt", ".markdown", ".MD", ".md.bak", ".html", "" }

\* The source file names tried: those of the configured list, and every stem
\* with every extension
SourceNames ==
    {ExerciseMetadataLiteral[j].Filename : j \in DOMAIN ExerciseMetadataLiteral}
        \cup {s \o e : s \in NameStems, e \in NameExtensions}

InitNames ==
    /\ RunIdle
    /\ LinksIdle
    /\ PatientIdle
    /\ ParserIdle
    /\ filename \in SourceNames
    /\ htmlName = ""
    /\ npc = "input"

\* htmlFilename := strings.TrimSuffix(meta.Filename, ".md") + ".html"
\* (main.go:105)
NameIt ==
    /\ npc = "input"
    /\ htmlName' = htmlFilename([Filename |-> filename])
    /\ npc' = "named"
    /\ UNCHANGED <<filename, runVars, linkVars, patientVars, parserVars>>

NextNames == NameIt

SpecNames == InitNames /\ [][NextNames]_vars

---------------------------------------------------------------------------
(* SpecPatient: runtime.main as exercise 7 patches it                      *)
(* (exercises/07-runtime-patient-go.md)                                    *)

\* The goroutines a program may start, the main goroutine apart
MaxGoroutines == 3

Gs == 1..MaxGoroutines

\* gcount(): the number of active goroutines, the main goroutine among them.
\* A goroutine is "idle" (not started), "runnable" (started, running or
\* ready to run), "waiting" (in time.Sleep) or "dead" (its function has
\* returned).
gcount == 1 + Cardinality({i \in Gs : allgs[i] \in {"runnable", "waiting"}})

\* Mutant of waitMore: the loop waits while more than two goroutines are
\* active.
waitMoreThanTwo == gcount > 2

\* The condition of the loop: gcount() > 1
waitMore == gcount > 1

InitPatient ==
    /\ RunIdle
    /\ LinksIdle
    /\ NamesIdle
    /\ ParserIdle
    /\ allgs = [i \in Gs |-> "idle"]
    /\ mpc = "main_main"

\* The process is there: exit has not been called
Alive == mpc \in {"main_main", "gcount", "Gosched", "teardown"}

\* A go statement of main.main starts a goroutine
GoStmtMain ==
    /\ mpc = "main_main"
    /\ \E i \in Gs : /\ allgs[i] = "idle"
                     /\ allgs' = [allgs EXCEPT ![i] = "runnable"]
    /\ UNCHANGED <<mpc, runVars, linkVars, nameVars, parserVars>>

\* A go statement of a goroutine starts another
GoStmtG ==
    /\ Alive
    /\ \E j, i \in Gs : /\ allgs[j] = "runnable"
                        /\ allgs[i] = "idle"
                        /\ allgs' = [allgs EXCEPT ![i] = "runnable"]
    /\ UNCHANGED <<mpc, runVars, linkVars, nameVars, parserVars>>

\* A goroutine calls time.Sleep
Sleep ==
    /\ Alive
    /\ \E i \in Gs : /\ allgs[i] = "runnable"
                     /\ allgs' = [allgs EXCEPT ![i] = "waiting"]
    /\ UNCHANGED <<mpc, runVars, linkVars, nameVars, parserVars>>

\* The sleep of a goroutine is over
Wake ==
    /\ Alive
    /\ \E i \in Gs : /\ allgs[i] = "waiting"
                     /\ allgs' = [allgs EXCEPT ![i] = "runnable"]
    /\ UNCHANGED <<mpc, runVars, linkVars, nameVars, parserVars>>

\* The function of a goroutine returns
Finish ==
    /\ Alive
    /\ \E i \in Gs : /\ allgs[i] = "runnable"
                     /\ allgs' = [allgs EXCEPT ![i] = "dead"]
    /\ UNCHANGED <<mpc, runVars, linkVars, nameVars, parserVars>>

\* fn() returns: main.main is over
MainReturn ==
    /\ mpc = "main_main"
    /\ mpc' = "gcount"
    /\ UNCHANGED <<allgs, runVars, linkVars, nameVars, parserVars>>

\* for gcount() > 1 { ... }: the condition is evaluated
LoopCond ==
    /\ mpc = "gcount"
    /\ mpc' = IF waitMore THEN "Gosched" ELSE "teardown"
    /\ UNCHANGED <<allgs, runVars, linkVars, nameVars, parserVars>>

\* Gosched() returns: the main goroutine has yielded and runs again
Gosched ==
    /\ mpc = "Gosched"
    /\ mpc' = "gcount"
    /\ UNCHANGED <<allgs, runVars, linkVars, nameVars, parserVars>>

\* The tear-down: the process exits, whatever the other goroutines are at
TearDown ==
    /\ mpc = "teardown"
    /\ mpc' = "exited"
    /\ UNCHANGED <<allgs, runVars, linkVars, nameVars, parserVars>>

NextPatient ==
    \/ GoStmtMain \/ GoStmtG \/ Sleep \/ Wake \/ Finish
    \/ MainReturn \/ LoopCond \/ Gosched \/ TearDown

\* The main goroutine never blocks: a scheduler that is fair to it lets it
\* take each of its steps.
SpecPatient ==
    /\ InitPatient
    /\ [][NextPatient]_vars
    /\ WF_vars(MainReturn)
    /\ WF_vars(LoopCond)
    /\ WF_vars(Gosched)
    /\ WF_vars(TearDown)

---------------------------------------------------------------------------
(* SpecParser: callStmt as exercise 3 patches it                           *)
(* (exercises/03-parser-multiple-go.md)                                    *)

\* The statements checked are made of at most MaxTokens tokens.
MaxTokens == 4

\* _Call stands for the tokens of a call expression, _Name for those of an
\* expression that is no call
Tokens == {"_Go", "_Defer", "_Call", "_Name", "_Semi"}

RECURSIVE TokenLists(_)
TokenLists(n) ==
    IF n = 0 THEN {<<>>}
    ELSE LET L == TokenLists(n - 1)
         IN  L \cup {Append(l, t) : l \in L, t \in Tokens}

\* p.tok
ptok == IF tokpos \in DOMAIN toks THEN toks[tokpos] ELSE "_EOF"

\* s, the CallStmt that callStmt has allocated
curStmt == stmts[Len(stmts)]

InitParser ==
    /\ RunIdle
    /\ LinksIdle
    /\ NamesIdle
    /\ PatientIdle
    /\ toks \in TokenLists(MaxTokens) \ {<<>>}
    /\ tokpos = 1
    /\ stmts = <<>>
    /\ ppc = "stmt"

\* case _Go, _Defer: return p.callStmt()
StmtGoDefer ==
    /\ ppc = "stmt"
    /\ ptok \in {"_Go", "_Defer"}
    /\ ppc' = "callStmt"
    /\ UNCHANGED <<toks, tokpos, stmts, runVars, linkVars, nameVars, patientVars>>

\* The other cases of the statement switch
StmtOther ==
    /\ ppc = "stmt"
    /\ ptok \notin {"_Go", "_Defer"}
    /\ ppc' = "other"
    /\ UNCHANGED <<toks, tokpos, stmts, runVars, linkVars, nameVars, patientVars>>

\* s := new(CallStmt); s.Tok = p.tok; p.next()
TakeTok ==
    /\ ppc = "callStmt"
    /\ stmts' = Append(stmts, [Tok |-> ptok, Call |-> FALSE])
    /\ tokpos' = tokpos + 1
    /\ ppc' = "loop"
    /\ UNCHANGED <<toks, runVars, linkVars, nameVars, patientVars>>

\* Mutant of moreGo: the loop is not under `if s.Tok == _Go` and consumes
\* the repetitions of the keyword of the statement.
moreOfTheKeyword == ptok = curStmt.Tok

\* if s.Tok == _Go { for p.tok == _Go { ... } }: the loop goes on
moreGo == curStmt.Tok = "_Go" /\ ptok = "_Go"

\* The body of the loop: p.next()
SkipGo ==
    /\ ppc = "loop"
    /\ moreGo
    /\ tokpos' = tokpos + 1
    /\ UNCHANGED <<toks, stmts, ppc, runVars, linkVars, nameVars, patientVars>>

\* The loop is over, or was not entered
LoopEnd ==
    /\ ppc = "loop"
    /\ ~moreGo
    /\ ppc' = "operand"
    /\ UNCHANGED <<toks, tokpos, stmts, runVars, linkVars, nameVars, patientVars>>

\* The rest of callStmt: the operand is parsed and is a call expression;
\* s is returned
OperandCall ==
    /\ ppc = "operand"
    /\ ptok = "_Call"
    /\ stmts' = [stmts EXCEPT ![Len(stmts)].Call = TRUE]
    /\ tokpos' = tokpos + 1
    /\ ppc' = "returned"
    /\ UNCHANGED <<toks, runVars, linkVars, nameVars, patientVars>>

\* The rest of callStmt: the operand is no call expression, a syntax error
OperandError ==
    /\ ppc = "operand"
    /\ ptok # "_Call"
    /\ ppc' = "error"
    /\ UNCHANGED <<toks, tokpos, stmts, runVars, linkVars, nameVars, patientVars>>

NextParser ==
    \/ StmtGoDefer \/ StmtOther \/ TakeTok \/ SkipGo \/ LoopEnd
    \/ OperandCall \/ OperandError

SpecParser == InitParser /\ [][NextParser]_vars

---------------------------------------------------------------------------
(* Reading a fragment and its rewriting side by side                       *)

\* The position after the reference that starts at p of h, 0 if none starts
\* there.  shape = "code": a match of one of the two expressions of
\* fixRelativeLinks.  shape = "sibling": as well, every href whose value is
\* a file name (no '/') ending in .md.
SiblingEnd(h, p) ==
    LET a == p + Len("href=\"")
        e == IF HasPrefixAt(h, p, "href=\"") THEN RunThenTail(h, a, ".md\"") ELSE 0
    IN  IF e # 0 /\ ~Contains(SubSeq(h, a, e - 2), "/") THEN e ELSE 0

RefEnd(h, p, shape) ==
    IF Re1MatchAt(h, p) # 0 THEN Re1MatchAt(h, p)
    ELSE IF Re3MatchAt(h, p) # 0 THEN Re3MatchAt(h, p)
    ELSE IF shape = "sibling" THEN SiblingEnd(h, p)
    ELSE 0

\* The position after the attribute href="..." that starts at q of o, 0 if
\* none starts there.
AttrEnd(o, q) ==
    LET a == q + Len("href=\"")
        S == {k \in a..Len(o) : CharAt(o, k) = Q}
    IN  IF HasPrefixAt(o, q, "href=\"") /\ S # {} THEN Min(S) + 1 ELSE 0

\* h from p and o from q, read together: outside the references of h the two
\* agree character by character, and each reference of h stands against one
\* href attribute of o.  ok: the reading succeeded and exhausted both;
\* pairs: the references of h, each with the attribute of o in its place.
RECURSIVE Align(_, _, _, _, _)
Align(h, o, p, q, shape) ==
    LET S == {k \in p..Len(h) : RefEnd(h, k, shape) # 0}
    IN  IF S = {}
        THEN [ok |-> SubSeq(h, p, Len(h)) = SubSeq(o, q, Len(o)), pairs |-> <<>>]
        ELSE LET k  == Min(S)
                 e  == RefEnd(h, k, shape)
                 q2 == q + (k - p)
                 e2 == AttrEnd(o, q2)
             IN  IF \/ q2 - 1 > Len(o)
                    \/ SubSeq(h, p, k - 1) # SubSeq(o, q, q2 - 1)
                    \/ e2 = 0
                 THEN [ok |-> FALSE, pairs |-> <<>>]
                 ELSE LET r == Align(h, o, e, e2, shape)
                      IN  [ok    |-> r.ok,
                           pairs |-> <<[in  |-> SubSeq(h, k, e - 1),
                                        out |-> SubSeq(o, q2, e2 - 1)]>>
                                     \o r.pairs]

\* The value of the attribute href="value"
AttrValue(attr) == SubSeq(attr, Len("href=\"") + 1, Len(attr) - 1)

Range(f) == {f[i] : i \in DOMAIN f}

Occurrences(s, lit) == {p \in 1..Len(s) : HasPrefixAt(s, p, lit)}

ReadmeHref == "href=\"../README.md\""

IndexHref == "href=\"index.html\""

\* The value is two digits, '-', one or more characters, then .md
IsNumberedMd(v) ==
    /\ Len(v) >= 7
    /\ CharAt(v, 1) \in Digits
    /\ CharAt(v, 2) \in Digits
    /\ CharAt(v, 3) = "-"
    /\ HasSuffix(v, ".md")
    /\ ~Contains(v, Q)

\* The value is a file name ending in .md
IsSiblingMd(v) ==
    /\ Len(v) >= 4
    /\ HasSuffix(v, ".md")
    /\ ~Contains(v, "/")
    /\ ~Contains(v, Q)

SwapExtension(v) == TrimSuffix(v, ".md") \o ".html"

---------------------------------------------------------------------------
(* Claims about fixRelativeLinks, under SpecLinks                          *)

C4_ReadmeToIndex ==
    lpc = "once" =>
        LET r == Align(html, once, 1, 1, "code")
            R == {i \in DOMAIN r.pairs : r.pairs[i].in = ReadmeHref}
        IN  /\ r.ok
            /\ Cardinality(R) = Cardinality(Occurrences(html, ReadmeHref))
            /\ \A i \in R : r.pairs[i].out = IndexHref
            /\ Occurrences(once, ReadmeHref) = {}

C4_Witness ==
    /\ lpc = "once"
    /\ Cardinality(Occurrences(html, ReadmeHref)) = 2
    /\ Cardinality(Occurrences(once, IndexHref)) = 2

\* C5: fixRelativeLinks(fixRelativeLinks(h)) = fixRelativeLinks(h) for every
\* fragment h.
C5_Idempotent == lpc = "twice" => twice = once

C5_Witness ==
    /\ lpc = "twice"
    /\ once # html
    /\ Contains(html, "exercises/")
    /\ Contains(html, "href=\"03-")

\* C6: everything outside a matched href is returned character for
\* character, every href that matches neither expression included; only
\* hrefs ending in .md are touched; a fragment without a match is returned
\* identical.
C6_FrameUnchanged ==
    lpc = "once" =>
        LET r == Align(html, once, 1, 1, "code")
        IN  /\ r.ok
            /\ \A pr \in Range(r.pairs) : HasSuffix(pr.in, ".md\"")
            /\ r.pairs = <<>> => once = html
            /\ \A lit \in {"href=\"https://example.com\"", "href=\"#top\""} :
                   Cardinality(Occurrences(once, lit))
                       = Cardinality(Occurrences(html, lit))

C6_Witness ==
    /\ lpc = "once"
    /\ Contains(html, "href=\"https://example.com\"")
    /\ Contains(once, "href=\"https://example.com\"")
    /\ once # html

---------------------------------------------------------------------------
(* Claims about the run, under Spec                                        *)

\* The output file name of the j-th descriptor (j from 1): the source file
\* name with its extension swapped
OutputFilename(j) == SwapExtension(exerciseMetadata[j].Filename)

PageNames == {OutputFilename(j) : j \in DOMAIN exerciseMetadata}

\* The file f of a directory: absent, or its bytes
FileState(files, f) ==
    IF f \in DOMAIN files THEN <<"file", files[f]>> ELSE <<"absent", "">>

\* The names the run created or wrote
Written ==
    {log[k].name : k \in {n \in DOMAIN log : log[n].op \in {"Create", "WriteFile"}
                                              /\ log[n].ok}}

LastEvent == log[Len(log)]

Failed == log # <<>> /\ ~LastEvent.ok

\* The k-th smallest element of a set of numbers
Nth(S, k) == CHOOSE p \in S : Cardinality({q \in S : q < p}) = k - 1

\* Prev and next of the Exercise built for the descriptor of index idx
NavOf(e, idx) ==
    /\ e.Number = idx
    /\ e.PrevLink = IF idx = 0 THEN "index.html" ELSE OutputFilename((idx - 1) + 1)
    /\ e.NextLink = IF idx = Len(exerciseMetadata) - 1 THEN ""
                    ELSE OutputFilename((idx + 1) + 1)

\* C1: the Exercise built for the descriptor at position i of N has PrevLink
\* "index.html" when i = 0 and otherwise the output file name of descriptor
\* i-1, and NextLink empty when i = N-1 and otherwise the output file name of
\* descriptor i+1; among the pages generated, neighbours name each other.
C1_NavLinks ==
    /\ \A j \in DOMAIN exercises : NavOf(exercises[j], j - 1)
    /\ pc \in {"Create", "Execute"} => NavOf(exercise, index)
    /\ \A j \in DOMAIN exercises :
           /\ j > 1 => exercises[j].PrevLink = exercises[j - 1].Filename
           /\ j < Len(exercises) => exercises[j].NextLink = exercises[j + 1].Filename

C1_Witness ==
    /\ pc = "done"
    /\ Len(exercises) = 3
    /\ exercises[2].PrevLink = "00-introduction-setup.html"
    /\ exercises[2].NextLink = "02-scanner-arrow-operator.html"

CardMark == "<div class=\"exercise-card\">"

\* The j-th entry of an index page: from its opening mark to the next one
IndexEntry(page, j) ==
    LET S == Occurrences(page, CardMark)
    IN  SubSeq(page, Nth(S, j),
               IF j < Cardinality(S) THEN Nth(S, j + 1) - 1 ELSE Len(page))

\* C2: once index.html is written it lists exactly N entries, the i-th
\* carrying Number i and descriptor i's emoji, title, description and a link
\* to descriptor i's output file name.
C2_IndexInOrder ==
    pc \in {"WriteCSS", "Summary", "done"} =>
        LET page == outFiles["index.html"]
        IN  /\ Cardinality(Occurrences(page, CardMark)) = Len(exerciseMetadata)
            /\ \A j \in DOMAIN exerciseMetadata :
                   LET entry == IndexEntry(page, j)
                       m     == exerciseMetadata[j]
                   IN  /\ Contains(entry, ">Exercise " \o ToString(j - 1) \o "</div>")
                       /\ Contains(entry, "<h3>" \o m.Emoji \o " <a href=\""
                                              \o OutputFilename(j) \o "\">"
                                              \o HTMLEscape(m.Title) \o "</a></h3>")
                       /\ Contains(entry, "<p>" \o HTMLEscape(m.Description) \o "</p>")

C2_Witness ==
    /\ pc = "done"
    /\ Len(exerciseMetadata) = 3
    /\ Cardinality(Occurrences(outFiles["index.html"], CardMark)) = 3

\* C7 as stated: after a successful run the names written are index.html and
\* the output file name of every descriptor, and no other.
C7_WrittenIndexAndPagesOnly ==
    pc = "done" => Written = {"index.html"} \cup PageNames

\* C7 (amended): after a successful run the names written are index.html,
\* style.css and the output file name of every descriptor: no descriptor is
\* skipped and no other file appears.
C7_WrittenIndexCssAndPages ==
    pc = "done" =>
        /\ Written = {"index.html", "style.css"} \cup PageNames
        /\ DOMAIN outFiles = DOMAIN outFiles0 \cup Written
        /\ Cardinality(PageNames) = Len(exerciseMetadata)

C7_Witness ==
    /\ pc = "done"
    /\ Len(exerciseMetadata) = 3
    /\ outFiles0 = <<>>
    /\ Cardinality(DOMAIN outFiles) = 5

\* C8: when the source file of descriptor k is missing, the run never goes
\* past descriptor k, never creates or modifies the output file of
\* descriptor k, never writes index.html and never prints the summary; it
\* ends in exit status 1 at the read of descriptor k.
C8_MissingSourceFailFast ==
    \A k \in DOMAIN exerciseMetadata :
        exerciseMetadata[k].Filename \notin DOMAIN srcFiles =>
            /\ index <= k - 1
            /\ FileState(outFiles, OutputFilename(k)) = FileState(outFiles0, OutputFilename(k))
            /\ FileState(outFiles, "index.html") = FileState(outFiles0, "index.html")
            /\ \A n \in DOMAIN log :
                   log[n].name \notin {OutputFilename(k), "index.html", "summary"}
            /\ SummaryLine \notin Range(stdout)
            /\ pc \notin {"IndexCreate", "IndexExecute", "WriteCSS", "Summary", "done"}
            /\ (index = k - 1 /\ pc \notin {"MkdirAll", "ReadFile", "Create", "Execute"})
                   => /\ pc = "exit1"
                      /\ Len(stderr) = 1

C8_Witness ==
    /\ pc = "exit1"
    /\ Len(exerciseMetadata) = 3
    /\ LastEvent = Event("ReadFile", exerciseMetadata[2].Filename, FALSE)
    /\ OutputFilename(2) \in DOMAIN outFiles0
    /\ "index.html" \in DOMAIN outFiles0
    /\ Len(exercises) = 1

\* C9: an error of any call (directory creation, source read, file create,
\* template execution, stylesheet write) ends the run: the failed call is the
\* last call of the run, exit status 1 is reached exactly then, nothing is
\* enabled afterwards, and no call is made twice in a run.
C9_ErrorsFatalNoRetry ==
    /\ \A n \in 1..(Len(log) - 1) : log[n].ok
    /\ pc = "exit1" <=> Failed
    /\ pc = "exit1" => /\ ~ENABLED Next
                       /\ Len(stderr) = 1
                       /\ SummaryLine \notin Range(stdout)
    /\ \A m, n \in DOMAIN log :
           m # n => <<log[m].op, log[m].name>> # <<log[n].op, log[n].name>>

C9_Witness ==
    /\ pc = "exit1"
    /\ Len(exerciseMetadata) = 3
    /\ LastEvent = Event("Execute", OutputFilename(2), FALSE)
    /\ Len(log) = 7

\* C10: the pages the run has generated stay on disk with the bytes written,
\* whatever happens afterwards; in particular when the run fails at
\* descriptor k the pages of descriptors 0..k-1 are there.
C10_NoRollback ==
    /\ pc \in {"ReadFile", "Create", "Execute", "exit1"} => Len(exercises) = index
    /\ \A j \in DOMAIN exercises :
           FileState(outFiles, OutputFilename(j))
               = <<"file", ExecuteExerciseTemplate(exercises[j])>>

C10_Witness ==
    /\ pc = "exit1"
    /\ Len(exerciseMetadata) = 3
    /\ LastEvent = Event("ReadFile", exerciseMetadata[3].Filename, FALSE)
    /\ Len(exercises) = 2
    /\ OutputFilename(1) \notin DOMAIN outFiles0

---------------------------------------------------------------------------
(* Claims about the order of the run, under Spec                           *)

\* The call op on name has been made and has succeeded, as the n-th call
DoneAt(op, name, n) == n \in DOMAIN log /\ log[n] = Event(op, name, TRUE)

Succeeded(op, name) == \E n \in DOMAIN log : DoneAt(op, name, n)

\* The file f has been created and filled by this run, before the n-th call
WroteBefore(f, n) ==
    \E c, e \in 1..(n - 1) : /\ c < e
                             /\ DoneAt("Create", f, c)
                             /\ DoneAt("Execute", f, e)

SummaryEmitted == SummaryLine \in Range(stdout)

\* C11: the success summary is on standard output only when this run has
\* written every page, index.html and style.css, each with success and
\* before the summary, and the files hold what was written; main reaches the
\* print of the summary only in such a state.
C11_SummaryAfterAllWrites ==
    /\ SummaryEmitted <=> pc = "done"
    /\ pc \in {"Summary", "done"} =>
           LET n == IF pc = "done" THEN Len(log) ELSE Len(log) + 1
           IN  /\ pc = "done" => LastEvent = Event("Println", "summary", TRUE)
               /\ \A k \in DOMAIN log : log[k].ok
               /\ stderr = <<>>
               /\ \A j \in DOMAIN exerciseMetadata :
                      /\ WroteBefore(OutputFilename(j), n)
                      /\ FileState(outFiles, OutputFilename(j))
                             = <<"file", ExecuteExerciseTemplate(exercises[j])>>
               /\ WroteBefore("index.html", n)
               /\ FileState(outFiles, "index.html")
                      = <<"file", ExecuteIndexTemplate(exercises)>>
               /\ \E w \in 1..(n - 1) : DoneAt("WriteFile", "style.css", w)
               /\ FileState(outFiles, "style.css") = <<"file", cssTemplate>>

C11_Witness ==
    /\ pc = "done"
    /\ SummaryEmitted
    /\ Len(exerciseMetadata) = 3
    /\ "style.css" \in DOMAIN outFiles0
    /\ outFiles["style.css"] # outFiles0["style.css"]

---------------------------------------------------------------------------
(* Claims about a second run, under SpecRerun                              *)

\* C12: a run over the same descriptors and the same source files as the
\* run before it, started in the directory that run left, ends with every
\* file of the directory holding the same bytes as after the run before; the
\* N+2 files it writes are all files it found there.
C12_RerunSameBytes ==
    (earlier # <<>> /\ pc = "done") =>
        /\ outFiles = earlier[Len(earlier)]
        /\ Written = {"index.html", "style.css"} \cup PageNames
        /\ Written \subseteq DOMAIN outFiles0

C12_Witness ==
    /\ earlier # <<>>
    /\ pc = "done"
    /\ Len(exerciseMetadata) = 3
    /\ OtherFile \in DOMAIN outFiles
    /\ outFiles["01-compile-go-unchanged.html"]
           = earlier[1]["01-compile-go-unchanged.html"]
    /\ Len(outFiles["01-compile-go-unchanged.html"]) > 100

\* The calls made on the file f, by their positions in the log
CallsOn(op, f) == {n \in DOMAIN log : log[n].op = op /\ log[n].name = f}

\* C13: in a run index.html is created at most once and filled at most once
\* (exactly once in a run that succeeds), every call on it comes after the
\* pages of all N descriptors have been written with success, and every
\* call on style.css comes after index.html has been written with success;
\* the two files are as the run found them until then.
C13_IndexOnceAfterPages ==
    /\ Cardinality(CallsOn("Create", "index.html")) <= 1
    /\ Cardinality(CallsOn("Execute", "index.html")) <= 1
    /\ pc = "done" => /\ Cardinality(CallsOn("Create", "index.html")) = 1
                      /\ Cardinality(CallsOn("Execute", "index.html")) = 1
    /\ \A n \in DOMAIN log :
           log[n].name = "index.html" =>
               \A j \in DOMAIN exerciseMetadata : WroteBefore(OutputFilename(j), n)
    /\ \A n \in DOMAIN log :
           log[n].name = "style.css" => WroteBefore("index.html", n)
    /\ FileState(outFiles, "index.html") # FileState(outFiles0, "index.html")
           => /\ Succeeded("Create", "index.html")
              /\ \A j \in DOMAIN exerciseMetadata :
                     FileState(outFiles, OutputFilename(j))
                         = <<"file", ExecuteExerciseTemplate(exercises[j])>>
    /\ FileState(outFiles, "style.css") # FileState(outFiles0, "style.css")
           => FileState(outFiles, "index.html")
                  = <<"file", ExecuteIndexTemplate(exercises)>>

C13_Witness ==
    /\ pc = "done"
    /\ Len(exerciseMetadata) = 3
    /\ CallsOn("Create", "index.html") = {11}
    /\ CallsOn("Execute", "index.html") = {12}
    /\ CallsOn("WriteFile", "style.css") = {13}
    /\ "index.html" \in DOMAIN outFiles0

\* The link is absent, or names a file this run has written with success
AbsentOrWritten(link) ==
    \/ link = ""
    \/ /\ link \in Written
       /\ link \in DOMAIN outFiles
       /\ \/ Succeeded("Execute", link)
          \/ Succeeded("WriteFile", link)

\* C14: after a run that succeeds, PrevLink and NextLink of every page are
\* each empty or the name of a file the run wrote to the output directory.
C14_LinksNameWrittenFiles ==
    pc = "done" =>
        /\ Len(exercises) = Len(exerciseMetadata)
        /\ \A j \in DOMAIN exercises :
               /\ AbsentOrWritten(exercises[j].PrevLink)
               /\ AbsentOrWritten(exercises[j].NextLink)

C14_Witness ==
    /\ pc = "done"
    /\ Len(exercises) = 3
    /\ outFiles0 = <<>>
    /\ exercises[1].PrevLink = "index.html"
    /\ exercises[2].NextLink \in Written
    /\ exercises[3].NextLink = ""

NavMark == "<nav class=\"exercise-nav\">"

\* The navigation strip of a page: from its opening mark to the end
NavStrip(page) ==
    LET S == Occurrences(page, NavMark)
    IN  IF S = {} THEN "" ELSE SubSeq(page, Max(S), Len(page))

\* A control of the strip: a link to target whose text starts with label
Control(target, label) ==
    "<a href=\"" \o target \o "\" class=\"nav-button\">" \o label

\* C15: every page written holds one previous control, a link to index.html
\* on the page of the first descriptor and to the page of the preceding
\* descriptor on the others; it holds a next control, a link to the page of
\* the following descriptor, exactly when there is a following descriptor;
\* it holds no other control.
C15_NavControls ==
    \A j \in DOMAIN exercises :
        LET nav  == NavStrip(outFiles[OutputFilename(j)])
            last == j = Len(exerciseMetadata)
        IN  /\ Contains(nav, IF j = 1 THEN Control("index.html", "<- Home")
                             ELSE Control(OutputFilename(j - 1), "<- Previous"))
            /\ Contains(nav, "Next: Exercise") <=> ~last
            /\ ~last => Contains(nav, Control(OutputFilename(j + 1), "Next: Exercise "))
            /\ Cardinality(Occurrences(nav, "class=\"nav-button\""))
                   = IF last THEN 1 ELSE 2

C15_Witness ==
    /\ pc = "done"
    /\ Len(exercises) = 3
    /\ Contains(NavStrip(outFiles[OutputFilename(1)]), "<- Home")
    /\ Contains(NavStrip(outFiles[OutputFilename(2)]), "<- Previous")
    /\ Contains(NavStrip(outFiles[OutputFilename(2)]), "Next: Exercise 2")
    /\ ~Contains(NavStrip(outFiles[OutputFilename(3)]), "Next: Exercise")

---------------------------------------------------------------------------
(* Claims about htmlFilename, under SpecNames                              *)

\* filepath.Ext: the suffix of the name that starts at its last '.', empty
\* when the name holds no '.'
Ext(name) ==
    LET S == Occurrences(name, ".")
    IN  IF S = {} THEN "" ELSE SubSeq(name, Max(S), Len(name))

\* The name with its extension swapped for .html: the same basename
ReplaceExt(name) == SubSeq(name, 1, Len(name) - Len(Ext(name))) \o ".html"

\* C16 as stated: for any source file name, the output file name is the
\* source file name with its extension swapped for .html.
C16_ExtensionSwappedForAnyName ==
    npc = "named" => htmlName = ReplaceExt(filename)

\* C16 (amended): for every source file name that ends in .md, as the file
\* name of every configured descriptor does, the output file name is the
\* source file name with that extension swapped for .html; for a source
\* file name that does not end in .md it is the whole name followed by
\* .html.
C16_MdExtensionSwapped ==
    /\ \A j \in DOMAIN ExerciseMetadataLiteral :
           HasSuffix(ExerciseMetadataLiteral[j].Filename, ".md")
    /\ npc = "named" =>
           IF HasSuffix(filename, ".md")
           THEN /\ Ext(filename) = ".md"
                /\ htmlName = ReplaceExt(filename)
                /\ htmlName = SubSeq(filename, 1, Len(filename) - Len(".md")) \o ".html"
           ELSE htmlName = filename \o ".html"

C16_Witness ==
    /\ npc = "named"
    /\ filename = "07-runtime-patient-go.md"
    /\ htmlName = "07-runtime-patient-go.html"

---------------------------------------------------------------------------
(* Claims about the directories, under Spec                                *)

\* The names main gives to the files it writes
GeneratedNames == PageNames \cup {"index.html", "style.css"}

\* C17: no step of a run removes a file of the output directory, and a file
\* that a step creates or changes is one of the N page files, index.html or
\* style.css; every file of another name stays as it is.
C17_OnlyAdds ==
    [][ /\ DOMAIN outFiles \subseteq DOMAIN outFiles'
        /\ \A f \in DOMAIN outFiles' :
               FileState(outFiles', f) # FileState(outFiles, f)
                   => f \in GeneratedNames ]_vars

C17_Witness ==
    /\ pc = "done"
    /\ Len(exerciseMetadata) = 3
    /\ OtherFile \in DOMAIN outFiles0
    /\ outFiles[OtherFile] = outFiles0[OtherFile]
    /\ "index.html" \in DOMAIN outFiles0
    /\ outFiles["index.html"] # outFiles0["index.html"]
    /\ "style.css" \notin DOMAIN outFiles0
    /\ "style.css" \in DOMAIN outFiles

\* C18: os.MkdirAll is the first call of a run and is made once; when it
\* succeeds the output directory and every directory above it exist, and
\* nothing is read or written before that; when it fails the run ends in
\* exit status 1 with one error message, and no source has been read, no
\* file written and nothing printed to standard output.
C18_MkdirAllFirst ==
    /\ log # <<>> => log[1].op = "MkdirAll"
    /\ \A n \in DOMAIN log : n > 1 => log[n].op # "MkdirAll"
    /\ (log # <<>> /\ log[1].ok) => dirs = Above(Len(outputPath))
    /\ pc = "MkdirAll" => /\ log = <<>>
                          /\ outFiles = outFiles0
                          /\ exercises = <<>>
    /\ (log # <<>> /\ ~log[1].ok) =>
           /\ pc = "exit1"
           /\ Len(log) = 1
           /\ Len(stderr) = 1
           /\ ~outDirExists
           /\ outFiles = <<>>
           /\ outFiles0 = <<>>
           /\ exercise = ZeroExercise
           /\ exercises = <<>>
           /\ stdout = <<>>

C18_Witness ==
    /\ pc = "exit1"
    /\ log = << Event("MkdirAll", "", FALSE) >>
    /\ dirs = Above(1)
    /\ srcFiles # <<>>

\* C19 as stated: a run that succeeds has generated a page for every .md
\* file of the exercises directory.
C19_EveryMdFileConverted ==
    pc = "done" =>
        \A f \in DOMAIN srcFiles :
            HasSuffix(f, ".md") =>
                /\ Succeeded("Execute", ReplaceExt(f))
                /\ ReplaceExt(f) \in DOMAIN outFiles

---------------------------------------------------------------------------
(* Claims about the patched runtime.main, under SpecPatient                *)

\* Every goroutine that was started has run to completion
AllFinished == \A i \in Gs : allgs[i] \in {"idle", "dead"}

\* C20: after main.main has returned, runtime.main is in the tear-down or
\* has exited only when gcount() <= 1, every goroutine that was started
\* having run to completion; and, the scheduler being fair to the main
\* goroutine, if from some point on every other goroutine is finished, the
\* loop ends and the program exits.
C20_PatientGo ==
    /\ [](mpc \in {"teardown", "exited"} => (gcount <= 1 /\ AllFinished))
    /\ (<>[]AllFinished) => <>(mpc = "exited")

C20_Witness ==
    /\ mpc = "exited"
    /\ \A i \in Gs : allgs[i] = "dead"

---------------------------------------------------------------------------
(* Claims about the patched callStmt, under SpecParser                     *)

\* The number of tokens tok at the head of toks
Leading(tok) ==
    LET S == {n \in 0..Len(toks) : \A j \in 1..n : toks[j] = tok}
    IN  Max(S)

\* The parser has stopped
ParserStopped == ppc \in {"returned", "error", "other"}

\* C21: a statement of k >= 1 go tokens followed by a call is parsed into
\* one CallStmt with Tok = _Go, the k tokens and the call being consumed
\* and nothing else; go tokens followed by anything else are consumed too
\* and end in a syntax error; a defer statement has its one defer token
\* consumed, whatever follows it.
C21_MultipleGoOneCallStmt ==
    LET k == Leading("_Go")
    IN  /\ Len(stmts) <= 1
        /\ (ParserStopped /\ k >= 1) =>
               /\ Len(stmts) = 1
               /\ curStmt.Tok = "_Go"
               /\ IF k + 1 \in DOMAIN toks /\ toks[k + 1] = "_Call"
                  THEN /\ ppc = "returned"
                       /\ curStmt.Call
                       /\ tokpos = k + 2
                  ELSE /\ ppc = "error"
                       /\ tokpos = k + 1
        /\ (ParserStopped /\ toks[1] = "_Defer") =>
               /\ Len(stmts) = 1
               /\ curStmt.Tok = "_Defer"
               /\ IF 2 \in DOMAIN toks /\ toks[2] = "_Call"
                  THEN /\ ppc = "returned"
                       /\ curStmt.Call
                       /\ tokpos = 3
                  ELSE /\ ppc = "error"
                       /\ tokpos = 2

C21_Witness ==
    /\ ppc = "returned"
    /\ toks = << "_Go", "_Go", "_Go", "_Call" >>
    /\ stmts = << [Tok |-> "_Go", Call |-> TRUE] >>
    /\ tokpos = 5

---------------------------------------------------------------------------
(* Claims about the steps of the run, under Spec                           *)

WriteOps == {"Create", "Execute", "WriteFile"}

\* The descriptor (from 1) a call is about: the one whose source or output
\* file it names, 0 for a call that is about none
DescriptorOf(ev) ==
    LET S == {j \in DOMAIN exerciseMetadata :
                 \/ ev.op = "ReadFile" /\ ev.name = exerciseMetadata[j].Filename
                 \/ ev.op \in WriteOps /\ ev.name = OutputFilename(j)}
    IN  IF S = {} THEN 0 ELSE Min(S)

\* C22 as stated: once a call has written to the output directory, no
\* source is read.
C22_NoReadAfterFirstWrite ==
    \A m, n \in DOMAIN log :
        (m < n /\ log[m].op \in WriteOps) => log[n].op # "ReadFile"

\* The place of a call in the order of the run: the directory, then for
\* each descriptor in turn its source read, its page created and its page
\* filled, then the index created and filled, the stylesheet and the summary
StepOf(ev) ==
    LET d == DescriptorOf(ev)
        N == Len(exerciseMetadata)
    IN  IF ev.op = "MkdirAll" THEN 0
        ELSE IF d # 0
             THEN 3 * (d - 1) + (IF ev.op = "ReadFile" THEN 1
                                 ELSE IF ev.op = "Create" THEN 2 ELSE 3)
        ELSE IF ev.name = "index.html"
             THEN 3 * N + (IF ev.op = "Create" THEN 1 ELSE 2)
        ELSE IF ev.name = cssName THEN 3 * N + 3
        ELSE 3 * N + 4

\* C22 (amended): the run passes through reading and converting, composing
\* and writing once per descriptor, in that order and in one direction:
\* every call is later in the order of the run than the call before it.  So
\* each call on a descriptor is made at most once, its source is read
\* before its output file is created and the file is created before it is
\* filled; once the output file of a descriptor has been created, only
\* sources of later descriptors are read; once index.html or style.css has
\* been touched, no source is read and no page is written.
C22_PhasesPerDescriptor ==
    \A n \in 2..Len(log) : StepOf(log[n - 1]) < StepOf(log[n])

C22_Witness ==
    /\ pc = "done"
    /\ Len(exerciseMetadata) = 3
    /\ log[4] = Event("Execute", OutputFilename(1), TRUE)
    /\ log[5] = Event("ReadFile", exerciseMetadata[2].Filename, TRUE)


\* C23: the documents are processed one at a time in list order: the calls
\* on descriptor d (reading its source, which is followed by converting,
\* rewriting and composing, then creating and filling its page) are the
\* three calls that follow those on descriptor d - 1, none of another
\* descriptor between them, and when the source of descriptor d is read the
\* page of every earlier descriptor has been created and filled with
\* success; the page being composed is that of the current descriptor.
C23_OneAtATimeInListOrder ==
    /\ \A n \in DOMAIN log :
           LET d == DescriptorOf(log[n])
               first == 3 * (d - 1) + 2
           IN  d # 0 =>
                 /\ n \in first..(first + 2)
                 /\ log[n].op = <<"ReadFile", "Create", "Execute">>[n - first + 1]
                 /\ log[n].op = "ReadFile" =>
                        \A j \in 1..(d - 1) : WroteBefore(OutputFilename(j), n)
    /\ pc \in {"Create", "Execute"} => exercise.Filename = OutputFilename(index + 1)

C23_Witness ==
    /\ pc = "Execute"
    /\ index = 2
    /\ Len(log) = 9
    /\ DescriptorOf(log[8]) = 3
    /\ DescriptorOf(log[5]) = 2


\* The files of the output directory other than f are left as they are
OthersKept(f) ==
    /\ DOMAIN outFiles' \ {f} = DOMAIN outFiles \ {f}
    /\ \A g \in DOMAIN outFiles \ {f} : outFiles'[g] = outFiles[g]

\* C24 as stated: no step of composing a page, from the read of its source
\* to the rendering of its markup, changes the output directory.
C24_ComposingLeavesOutputDir ==
    [][(pc = "ReadFile" \/ pc = "Execute") => outFiles' = outFiles]_vars

\* C24 (amended): the Exercise of a page is a function of the descriptor,
\* its place in the list and its source, and building it changes neither
\* the output directory nor the sources nor the list; the markup is a
\* function of that Exercise, and rendering it writes it into the output
\* file of the page and changes no other file.
C24_ComposingWritesOwnPageOnly ==
    [][/\ pc = "ReadFile" =>
             /\ outFiles' = outFiles
             /\ dirs' = dirs
             /\ srcFiles' = srcFiles
             /\ exerciseMetadata' = exerciseMetadata
             /\ pc' = "Create" =>
                    exercise' = newExercise(exerciseMetadata[index + 1], index,
                                            srcFiles[exerciseMetadata[index + 1].Filename])
       /\ pc = "Execute" =>
             /\ OthersKept(OutputFilename(index + 1))
             /\ OutputFilename(index + 1) \in DOMAIN outFiles'
             /\ dirs' = dirs
             /\ srcFiles' = srcFiles
             /\ pc' # "exit1" =>
                    outFiles'[OutputFilename(index + 1)]
                        = ExecuteExerciseTemplate(
                              newExercise(exerciseMetadata[index + 1], index,
                                          srcFiles[exerciseMetadata[index + 1].Filename]))
      ]_vars

C24_Witness ==
    /\ pc = "ReadFile"
    /\ index = 1
    /\ OtherFile \in DOMAIN outFiles0
    /\ OutputFilename(2) \in DOMAIN outFiles0
    /\ outFiles[OutputFilename(1)] = ExecuteExerciseTemplate(exercises[1])
    /\ outFiles[OutputFilename(1)] # outFiles0[OutputFilename(1)]
    /\ outFiles[OutputFilename(2)] = StaleBytes
    /\ outFiles[OtherFile] = StaleBytes


\* The pages this run has filled with success
PagesDone ==
    {n \in DOMAIN log : log[n].op = "Execute" /\ log[n].ok /\ log[n].name \in PageNames}

\* C25: loop invariant of main: when k descriptors have been processed with
\* success the slice exercises has k entries, entry j (from 0) has Number j
\* and the output filename of configured descriptor j, inside the loop k is
\* the index of the descriptor at work, and the slice that generateIndexPage
\* gets has N entries.
C25_LoopInvariant ==
    /\ Len(exercises) = Cardinality(PagesDone)
    /\ Len(exercises) <= Len(exerciseMetadata)
    /\ \A j \in DOMAIN exercises :
           /\ exercises[j].Number = j - 1
           /\ exercises[j].Filename = OutputFilename(j)
    /\ pc \in {"ReadFile", "Create", "Execute"} =>
           /\ Len(exercises) = index
           /\ index < Len(exerciseMetadata)
    /\ pc = "MkdirAll" => exercises = <<>>
    /\ pc \in {"IndexCreate", "IndexExecute"} => Len(exercises) = Len(exerciseMetadata)
    /\ (\E n \in DOMAIN log : log[n].name = "index.html")
           => Len(exercises) = Len(exerciseMetadata)

C25_Witness ==
    /\ pc = "IndexExecute"
    /\ Len(exerciseMetadata) = 3
    /\ Len(exercises) = 3
    /\ exercises[3].Number = 2
    /\ exercises[3].Filename = OutputFilename(3)

---------------------------------------------------------------------------
(* More claims about fixRelativeLinks, under SpecRefs                      *)

\* The hrefs the tutorials and a reader's notes use for a sibling document
DotSlashHref == "href=\"./02-scanner-arrow-operator.md\""

NotesHref == "href=\"notes.md\""

ExercisesPrefix == "href=\"../exercises/"

\* attr is href="../exercises/X.md" for some X of one or more characters
IsExercisesRef(attr) ==
    /\ HasPrefixAt(attr, 1, ExercisesPrefix)
    /\ HasSuffix(attr, ".md\"")
    /\ Len(attr) > Len(ExercisesPrefix) + Len(".md\"")

\* The X of href="../exercises/X.md"
ExercisesName(attr) == SubSeq(attr, Len(ExercisesPrefix) + 1, Len(attr) - Len(".md\""))

\* C27: an href of the form ../exercises/X.md is rewritten to X.html, but
\* when the text of the reference contains README.md (as
\* ../exercises/README.md does) it is rewritten to index.html.
C27_ExercisesRefToHtml ==
    lpc = "once" =>
        LET r == Align(html, once, 1, 1, "code")
            E == {i \in DOMAIN r.pairs : IsExercisesRef(r.pairs[i].in)}
        IN  /\ r.ok
            /\ \A p \in Occurrences(html, ExercisesPrefix) :
                   Re1MatchAt(html, p) # 0
                       => \E i \in E : r.pairs[i].in = SubSeq(html, p, Re1MatchAt(html, p) - 1)
            /\ \A i \in E :
                   r.pairs[i].out =
                       IF Contains(r.pairs[i].in, "README.md") THEN IndexHref
                       ELSE "href=\"" \o ExercisesName(r.pairs[i].in) \o ".html\""
            /\ Occurrences(once, ExercisesPrefix \o "README.md\"") = {}

C27_Witness ==
    /\ lpc = "once"
    /\ html = "<a " \o ExercisesPrefix \o "README.md\"><a "
                    \o ExercisesPrefix \o "02-scanner-arrow-operator.md\">"
    /\ once = "<a " \o IndexHref \o "><a href=\"02-scanner-arrow-operator.html\">"

---------------------------------------------------------------------------
(* Claims about a run that stops at a missing source, under Spec           *)

\* The run has stopped at the read of the source of descriptor index
\* (from 0)
AbortedAtRead ==
    /\ pc = "exit1"
    /\ LastEvent.op = "ReadFile"
    /\ ~LastEvent.ok
    /\ LastEvent.name = exerciseMetadata[index + 1].Filename

\* C28: the NextLink of a page comes from the configured list alone, before
\* the next descriptor is processed: the Exercise at work names the output
\* file of the following descriptor whether or not its source is there, and
\* when a run into an empty output directory stops at descriptor k > 0
\* because its source is missing, the page of descriptor k - 1 is on disk
\* with a next control to the output file of descriptor k, a file that does
\* not exist.
C28_NextLinkDangling ==
    /\ pc \in {"Create", "Execute"} =>
           exercise.NextLink = IF index + 1 = Len(exerciseMetadata) THEN ""
                               ELSE OutputFilename(index + 2)
    /\ (AbortedAtRead /\ index > 0 /\ DOMAIN outFiles0 = {}) =>
           /\ OutputFilename(index) \in DOMAIN outFiles
           /\ exercises[index].NextLink = OutputFilename(index + 1)
           /\ Contains(NavStrip(outFiles[OutputFilename(index)]),
                       Control(OutputFilename(index + 1), "Next: Exercise "))
           /\ OutputFilename(index + 1) \notin DOMAIN outFiles

C28_Witness ==
    /\ AbortedAtRead
    /\ index = 2
    /\ DOMAIN outFiles0 = {}
    /\ DOMAIN outFiles = {OutputFilename(1), OutputFilename(2)}
    /\ exercises[2].NextLink = OutputFilename(3)


\* The pages of the descriptors before the one at work
PagesBefore == {OutputFilename(j) : j \in 1..index}

\* C29: a run over a directory that an earlier run has filled, stopping at
\* descriptor k on a source read error, modifies only the pages of
\* descriptors 0..k-1: these hold the new markup, and the pages of
\* descriptors >= k, index.html, style.css and every other file are there
\* or absent as the earlier run left them, byte for byte, so that new and
\* stale files can stand side by side.
C29_AbortKeepsTheRest ==
    AbortedAtRead =>
        /\ DOMAIN outFiles = DOMAIN outFiles0 \cup PagesBefore
        /\ \A f \in DOMAIN outFiles \ PagesBefore : outFiles[f] = outFiles0[f]
        /\ \A j \in 1..index :
               /\ outFiles[OutputFilename(j)] = ExecuteExerciseTemplate(exercises[j])
               /\ outFiles[OutputFilename(j)] # StaleBytes
        /\ \A n \in DOMAIN log :
               log[n].op \in WriteOps => log[n].name \in PagesBefore

C29_Witness ==
    /\ AbortedAtRead
    /\ index = 1
    /\ Len(exerciseMetadata) = 3
    /\ DOMAIN outFiles0 = GeneratedNames
    /\ outFiles[OutputFilename(1)] # outFiles0[OutputFilename(1)]
    /\ \A f \in {OutputFilename(2), OutputFilename(3), "index.html", "style.css"} :
           outFiles[f] = StaleBytes

---------------------------------------------------------------------------
(* Claims about the names of the files written, under Spec                 *)

\* The output file name derived from a source file name
OutputOf(name) == htmlFilename([Filename |-> name])

\* The source file names that end in .md, index.md apart
MdSourceNames == {n \in SourceNames : HasSuffix(n, ".md") /\ n # "index.md"}

\* Distinct names of S have distinct output names, none of them index.html
\* or style.css
OutputsDistinct(S) ==
    /\ \A a, b \in S : a # b => OutputOf(a) # OutputOf(b)
    /\ \A a \in S : OutputOf(a) \notin {"index.html", cssName}

\* C30 as stated: whatever the source file names of a list are, when they
\* are pairwise distinct the derived output file names are pairwise
\* distinct and differ from index.html and style.css.
C30_DistinctSourcesDistinctOutputs ==
    OutputsDistinct(SourceNames \cup {exerciseMetadata[j].Filename : j \in DOMAIN exerciseMetadata})

MdOutputsDistinct == OutputsDistinct(MdSourceNames)

\* C30 (amended): for a list whose source file names are pairwise distinct,
\* end in .md and are not index.md, as those of the configured list are, the
\* derived output file names are pairwise distinct and differ from
\* index.html and style.css; a successful run writes N+2 distinct files, and
\* no file that a run has written is created or written again later in the
\* run.
C30_MdSourcesDistinctOutputs ==
    /\ MdOutputsDistinct
    /\ \A j \in DOMAIN exerciseMetadata : exerciseMetadata[j].Filename \in MdSourceNames
    /\ Cardinality(PageNames \cup {"index.html", cssName}) = Len(exerciseMetadata) + 2
    /\ pc = "done" => Cardinality(Written) = Len(exerciseMetadata) + 2
    /\ \A m, n \in DOMAIN log :
           (m < n /\ log[m].op \in WriteOps /\ log[n].op \in WriteOps
                  /\ log[m].name = log[n].name)
               => /\ log[m].op = "Create"
                  /\ log[n].op = "Execute"
                  /\ n = m + 1

C30_Witness ==
    /\ pc = "done"
    /\ Len(exerciseMetadata) = 3
    /\ Cardinality(Written) = 5
    /\ Cardinality(DOMAIN outFiles0) = 6
    /\ \A f \in Written : outFiles[f] # StaleBytes

============================================================================
